---- MODULE Spec2Model ----
(***************************************************************************)
(* Model of lib/plugin_stream_mapper.py (PluginStreamMapper): the mapper   *)
(* configuration, the filter chain builder and the custom stream mapping.  *)
(*                                                                         *)
(* A Python str is modelled as a sequence of atoms.  An atom is a TLA+     *)
(* string standing for an indivisible run of characters; the whitespace    *)
(* atoms are " ", "\t" and "\n".  Concatenation and str.format are \o.     *)
(* A Python list of str is a sequence of such sequences.                   *)
(***************************************************************************)
EXTENDS Integers, Sequences, FiniteSets, TLC

VARIABLES
    pc,               \* "new", "configured", "failed" (an exception propagated)
    settings,         \* self.settings
    crop_value,       \* self.crop_value
    main_options,     \* self.main_options      (StreamMapper)
    advanced_options, \* self.advanced_options  (StreamMapper)
    generic_options,  \* self.generic_options   (StreamMapper)
    next_stream,      \* index of the next video stream the mapper will visit
    results,          \* the Mapping Results returned so far, in order
    lastBuild,        \* <<>> or <<r>>: what the last build_filter_chain call returned
    detector_calls,   \* number of invocations of tools.detect_plack_bars
    groups,           \* encoder group each operation selected for video_encoder
    raised,           \* name of the operation whose exception propagated, or "none"
    chain             \* input and output of the filtergraph join (SpecChain)

vars == <<pc, settings, crop_value, main_options, advanced_options, generic_options,
          next_stream, results, lastBuild, detector_calls, groups, raised, chain>>

---------------------------------------------------------------------------
(* Bounds *)

MaxVideoStream == 1
MaxChainStream == 3
MaxSoftware == 2
MaxHardware == 2

StreamIds == 0..MaxVideoStream

---------------------------------------------------------------------------
(* Python values *)

\* Python's None, where a str is expected
None == <<"None">>

\* bool(v) of an optional str
Truthy(v) == v # None /\ v # <<>>

Whitespace == {" ", "\t", "\n"}

Digits == <<"0", "1", "2", "3", "4", "5", "6", "7", "8", "9">>

RECURSIVE IntStr(_)
\* str(n) and '{}'.format(n) of a non-negative int
IntStr(n) == IF n < 10 THEN <<Digits[n + 1]>>
             ELSE IntStr(n \div 10) \o <<Digits[(n % 10) + 1]>>

RECURSIVE SplitFrom(_, _, _)
SplitFrom(s, cur, acc) ==
    IF s = <<>> THEN (IF cur = <<>> THEN acc ELSE Append(acc, cur))
    ELSE IF Head(s) \in Whitespace
         THEN SplitFrom(Tail(s), <<>>, IF cur = <<>> THEN acc ELSE Append(acc, cur))
         ELSE SplitFrom(Tail(s), Append(cur, Head(s)), acc)

\* str.split(): the maximal runs of non-whitespace
Split(s) == SplitFrom(s, <<>>, <<>>)

RECURSIVE SplitlinesFrom(_, _, _)
SplitlinesFrom(s, cur, acc) ==
    IF s = <<>> THEN (IF cur = <<>> THEN acc ELSE Append(acc, cur))
    ELSE IF Head(s) = "\n"
         THEN SplitlinesFrom(Tail(s), <<>>, Append(acc, cur))
         ELSE SplitlinesFrom(Tail(s), Append(cur, Head(s)), acc)

\* str.splitlines(): the lines, without their line ends
Splitlines(s) == SplitlinesFrom(s, <<>>, <<>>)

RECURSIVE LStrip(_)
LStrip(s) == IF s # <<>> /\ Head(s) \in Whitespace THEN LStrip(Tail(s)) ELSE s

RECURSIVE RStrip(_)
RStrip(s) == IF s # <<>> /\ s[Len(s)] \in Whitespace
             THEN RStrip(SubSeq(s, 1, Len(s) - 1)) ELSE s

\* str.strip()
Strip(s) == RStrip(LStrip(s))

---------------------------------------------------------------------------
(* Collaborators: the StreamMapper base class, the encoder profiles and    *)
(* tools.  Their code is outside lib/plugin_stream_mapper.py; they are     *)
(* modelled from their interface contract.                                 *)

\* Built-in baseline argument lists of StreamMapper
BaselineGeneric == << <<"-hide_banner">> >>
BaselineMain == << <<"-bm">> >>
BaselineAdvanced == << <<"-strict">>, <<"-2">> >>

RECURSIVE KeyIndex(_, _, _)
\* position of the first entry of opts equal to key at or after i, 0 if none
KeyIndex(opts, key, i) ==
    IF i > Len(opts) THEN 0
    ELSE IF opts[i] = key THEN i ELSE KeyIndex(opts, key, i + 1)

\* one keyword argument merged into an argument list, last write wins
SetOption(opts, key, value) ==
    LET i == KeyIndex(opts, key, 1)
    IN  IF i = 0 THEN opts \o <<key, value>>
        ELSE IF i = Len(opts) THEN Append(opts, value)
        ELSE [opts EXCEPT ![i + 1] = value]

RECURSIVE SetOptions(_, _)
\* StreamMapper.set_ffmpeg_generic_options / set_ffmpeg_advanced_options:
\* kwargs is a sequence of <<key, value>> pairs
SetOptions(opts, kwargs) ==
    IF kwargs = <<>> THEN opts
    ELSE SetOptions(SetOption(opts, Head(kwargs)[1], Head(kwargs)[2]), Tail(kwargs))

HasOption(opts, key) == KeyIndex(opts, key, 1) # 0

\* the value registered for key, None when the key is not registered
OptionValue(opts, key) ==
    LET i == KeyIndex(opts, key, 1)
    IN  IF i = 0 \/ i = Len(opts) THEN None ELSE opts[i + 1]

\* Encoder registry: the encoder names each profile claims
LibxEncoders == {"libx264", "libx265"}
QsvEncoders == {"h264_qsv", "hevc_qsv"}
VaapiEncoders == {"hevc_vaapi", "h264_vaapi"}

\* <Profile>.generate_default_args(enabled_hw_decoding): generic and advanced maps
LibxDefaultArgs == [generic |-> <<>>, advanced |-> <<>>]
QsvDefaultArgs ==
    [generic  |-> << << <<"-init_hw_device">>, <<"qsv=hw">> >>,
                     << <<"-filter_hw_device">>, <<"hw">> >> >>,
     advanced |-> <<>>]
VaapiDefaultArgs ==
    [generic  |-> << << <<"-hwaccel">>, <<"vaapi">> >>,
                     << <<"-hwaccel_output_format">>, <<"vaapi">> >> >>,
     advanced |-> <<>>]

\* <Profile>.generate_filtergraphs(): the mandatory filtergraph fragments
QsvFiltergraphs == << <<"hwupload=extra_hw_frames=64,format=qsv">> >>
VaapiFiltergraphs == << <<"format=nv12|vaapi,hwupload">> >>

\* <Profile>(settings).args(stream_id): per-stream encoder arguments
LibxArgs(stream_id) == << <<"-crf">>, <<"23">> >>
QsvArgs(stream_id) == << <<"-global_quality:v:">> \o IntStr(stream_id), <<"23">> >>
VaapiArgs(stream_id) == << <<"-rc_mode">>, <<"CQP">> >>

\* tools.image_video_codecs
ImageVideoCodecs == {"mjpeg", "png", "gif"}

\* str.lower() on the codec names the prober reports
Lower(codec) == IF codec = "PNG" THEN "png" ELSE codec

---------------------------------------------------------------------------
(* PluginStreamMapper: the mapper is the record                            *)
(*   [settings, crop_value, main_options, advanced_options,                *)
(*    generic_options]                                                     *)
(* and each method returns the mapper it leaves behind, whether it raised, *)
(* and what it returned.                                                   *)

\* mutant: the mapper's own VAAPI list misses an encoder the profile claims
vaapi_encoders_Stale == {"hevc_vaapi"}

\* self.vaapi_encoders
vaapi_encoders == {"hevc_vaapi", "h264_vaapi"}

\* the encoder branch set_default_values takes: "libx", "qsv", "vaapi" or "none"
ConfigureGroup(video_encoder) ==
    IF video_encoder \in LibxEncoders THEN "libx"
    ELSE IF video_encoder \in QsvEncoders THEN "qsv"
    ELSE IF video_encoder \in vaapi_encoders THEN "vaapi"
    ELSE "none"

\* the encoder branch build_filter_chain takes: "qsv", "vaapi" or "none"
FilterGroup(video_encoder) ==
    IF video_encoder \in QsvEncoders THEN "qsv"
    ELSE IF video_encoder \in vaapi_encoders THEN "vaapi"
    ELSE "none"

\* the encoder branch custom_stream_mapping takes
MappingGroup(video_encoder) ==
    IF video_encoder \in LibxEncoders THEN "libx"
    ELSE IF video_encoder \in QsvEncoders THEN "qsv"
    ELSE IF video_encoder \in VaapiEncoders THEN "vaapi"
    ELSE "none"

\* mutant: the overrides are assigned even when they hold no token
AdvancedModeDefaults_AlwaysOverwrites(self) ==
    IF self.settings.main_options = None THEN [self |-> self, raised |-> TRUE]
    ELSE
      LET s1 == [self EXCEPT !.main_options = Split(self.settings.main_options)]
      IN  IF self.settings.advanced_options = None THEN [self |-> s1, raised |-> TRUE]
          ELSE [self |-> [s1 EXCEPT !.advanced_options =
                                      Split(self.settings.advanced_options)],
                raised |-> FALSE]

\* advanced mode of set_default_values: the main and advanced overrides.
\* .split() on a missing (None) setting raises AttributeError.
AdvancedModeDefaults(self) ==
    IF self.settings.main_options = None THEN [self |-> self, raised |-> TRUE]
    ELSE
      LET main == Split(self.settings.main_options)
          s1 == IF main # <<>> THEN [self EXCEPT !.main_options = main] ELSE self
      IN  IF self.settings.advanced_options = None THEN [self |-> s1, raised |-> TRUE]
          ELSE
            LET adv == Split(self.settings.advanced_options)
                s2 == IF adv # <<>> THEN [s1 EXCEPT !.advanced_options = adv] ELSE s1
            IN  [self |-> s2, raised |-> FALSE]

\* mutant: detection does not wait for autocrop_black_bars
DetectBlackBars_IgnoresAutocrop(s) ==
    /\ s.mode = "standard"
    /\ s.apply_smart_filters

\* standard mode: is the black-bar detector invoked
DetectBlackBars(s) ==
    /\ s.mode = "standard"
    /\ s.apply_smart_filters
    /\ s.autocrop_black_bars

\* standard mode: the max_muxing_queue_size argument
MuxingQueueDefaults(self) ==
    IF self.settings.mode = "standard" /\ self.settings.max_muxing_queue_size # 0
    THEN [self EXCEPT !.advanced_options =
            SetOptions(@, << << <<"-max_muxing_queue_size">>,
                                IntStr(self.settings.max_muxing_queue_size) >> >>)]
    ELSE self

\* the profile default arguments merged into the generic and advanced options
EncoderDefaults(self, group) ==
    LET args == IF group = "libx" THEN LibxDefaultArgs
                ELSE IF group = "qsv" THEN QsvDefaultArgs
                ELSE IF group = "vaapi" THEN VaapiDefaultArgs
                ELSE [generic |-> <<>>, advanced |-> <<>>]
    IN  [self EXCEPT !.generic_options = SetOptions(@, args.generic),
                     !.advanced_options = SetOptions(@, args.advanced)]

\* set_default_values(settings, abspath, probe); detected is what
\* tools.detect_plack_bars returns for this file when it is invoked
set_default_values(self, new_settings, detected) ==
    LET s0 == [self EXCEPT !.settings = new_settings]
    IN  IF new_settings.mode = "advanced"
        THEN LET a == AdvancedModeDefaults(s0)
             IN  [self |-> a.self, raised |-> a.raised,
                  detector_calls |-> 0, group |-> "unset"]
        ELSE LET s1 == MuxingQueueDefaults(s0)
                 detect == DetectBlackBars(new_settings)
                 s2 == IF detect THEN [s1 EXCEPT !.crop_value = detected] ELSE s1
                 group == ConfigureGroup(new_settings.video_encoder)
             IN  [self |-> EncoderDefaults(s2, group), raised |-> FALSE,
                  detector_calls |-> IF detect THEN 1 ELSE 0, group |-> group]

\* filter_id = '0:v:{}'.format(stream_id)
InputLabel(stream_id) == <<"0:", "v:">> \o IntStr(stream_id)

\* '0:vf:{}-{}'.format(stream_id, count)
FilterLabel(stream_id, count) == <<"0:", "vf:">> \o IntStr(stream_id) \o <<"-">> \o IntStr(count)

RECURSIVE AppendFilters(_, _, _)
\* one of the two join loops, over acc = [filter_id, filtergraph, count]
AppendFilters(acc, stream_id, filters) ==
    IF filters = <<>> THEN acc
    ELSE
      LET sep == IF acc.filtergraph # <<>> THEN <<";">> ELSE <<>>
          next_id == FilterLabel(stream_id, acc.count)
          graph == acc.filtergraph \o sep
                     \o <<"[">> \o acc.filter_id \o <<"]">>
                     \o Head(filters)
                     \o <<"[">> \o next_id \o <<"]">>
      IN  AppendFilters([filter_id |-> next_id, filtergraph |-> graph,
                         count |-> acc.count + 1], stream_id, Tail(filters))

\* mutant: the hardware loop numbers its labels from 1 again
FilterChainResult_CountRestarts(stream_id, software_filters, hardware_filters) ==
    IF software_filters = <<>> /\ hardware_filters = <<>>
    THEN [filter_id |-> None, filtergraph |-> None]
    ELSE
      LET a0 == [filter_id |-> InputLabel(stream_id), filtergraph |-> <<>>, count |-> 1]
          a1 == AppendFilters(a0, stream_id, software_filters)
          a2 == AppendFilters([a1 EXCEPT !.count = 1], stream_id, hardware_filters)
      IN  [filter_id |-> a2.filter_id, filtergraph |-> a2.filtergraph]

\* the tail of build_filter_chain: (None, None) or the joined filtergraph
FilterChainResult(stream_id, software_filters, hardware_filters) ==
    IF software_filters = <<>> /\ hardware_filters = <<>>
    THEN [filter_id |-> None, filtergraph |-> None]
    ELSE
      LET a0 == [filter_id |-> InputLabel(stream_id), filtergraph |-> <<>>, count |-> 1]
          a1 == AppendFilters(a0, stream_id, software_filters)
          a2 == AppendFilters(a1, stream_id, hardware_filters)
      IN  [filter_id |-> a2.filter_id, filtergraph |-> a2.filtergraph]

\* the smart software filters: crop
SmartFilters(self) ==
    IF /\ self.settings.apply_smart_filters
       /\ self.settings.autocrop_black_bars
       /\ Truthy(self.crop_value)
    THEN << <<"crop=">> \o self.crop_value >>
    ELSE <<>>

RECURSIVE StrippedLines(_)
\* the non-blank lines, stripped
StrippedLines(lines) ==
    IF lines = <<>> THEN <<>>
    ELSE (IF Strip(Head(lines)) # <<>> THEN <<Strip(Head(lines))>> ELSE <<>>)
           \o StrippedLines(Tail(lines))

\* mutant: the custom filters are queued whatever apply_custom_filters says
CustomFilters_IgnoresFlag(s) ==
    IF s.custom_software_filters # None
    THEN StrippedLines(Splitlines(s.custom_software_filters))
    ELSE <<>>

\* the custom software filters; the setting is read only when
\* apply_custom_filters is set, and is then not None
CustomFilters(s) ==
    IF s.apply_custom_filters
    THEN StrippedLines(Splitlines(s.custom_software_filters))
    ELSE <<>>

\* the filtergraphs the encoder group requires
HardwareFilters(group) ==
    IF group = "qsv" THEN QsvFiltergraphs
    ELSE IF group = "vaapi" THEN VaapiFiltergraphs
    ELSE <<>>

\* mutant: VAAPI always outputs software frames
DisableVaapiSurfaces_Always(self, group, software_filters) ==
    IF group = "vaapi"
    THEN [self EXCEPT !.generic_options =
            SetOptions(@, << << <<"-hwaccel_output_format">>, <<"nv12">> >> >>)]
    ELSE self

\* mutant: the crop value is consumed by the build that queues it
DisableVaapiSurfaces_ClearsCrop(self, group, software_filters) ==
    IF group = "vaapi" /\ software_filters # <<>>
    THEN [self EXCEPT !.generic_options =
                        SetOptions(@, << << <<"-hwaccel_output_format">>, <<"nv12">> >> >>),
                      !.crop_value = None]
    ELSE self

\* the mapper after the hardware branch: VAAPI with software filters queued
\* outputs software frames
DisableVaapiSurfaces(self, group, software_filters) ==
    IF group = "vaapi" /\ software_filters # <<>>
    THEN [self EXCEPT !.generic_options =
            SetOptions(@, << << <<"-hwaccel_output_format">>, <<"nv12">> >> >>)]
    ELSE self

\* build_filter_chain(stream_id)
build_filter_chain(self, stream_id) ==
    IF self.settings.apply_custom_filters /\ self.settings.custom_software_filters = None
    THEN [self |-> self, raised |-> TRUE, filter_id |-> None, filtergraph |-> None,
          group |-> "unset", software_filters |-> <<>>]
    ELSE
      LET software_filters == SmartFilters(self) \o CustomFilters(self.settings)
          group == FilterGroup(self.settings.video_encoder)
          hardware_filters == HardwareFilters(group)
          ret == FilterChainResult(stream_id, software_filters, hardware_filters)
      IN  [self |-> DisableVaapiSurfaces(self, group, software_filters),
           raised |-> FALSE, filter_id |-> ret.filter_id, filtergraph |-> ret.filtergraph,
           group |-> group, software_filters |-> software_filters]

\* test_stream_needs_processing(stream_info)
test_stream_needs_processing(codec_name) == Lower(codec_name) \notin ImageVideoCodecs

\* stream_specifier = 'v:{}'.format(stream_id)
StreamSpecifier(stream_id) == <<"v:">> \o IntStr(stream_id)

\* map_identifier: the filtergraph output when a graph was built, else the raw input
MapIdentifier(stream_id, filter_id, filter_complex) ==
    IF Truthy(filter_complex)
    THEN <<"[">> \o filter_id \o <<"]">>
    ELSE <<"0:">> \o StreamSpecifier(stream_id)

\* mutant: a -filter_complex registered earlier is kept
RegisterFilterComplex_KeepsFirst(self, filter_complex) ==
    IF Truthy(filter_complex) /\ ~HasOption(self.advanced_options, <<"-filter_complex">>)
    THEN [self EXCEPT !.advanced_options =
            SetOptions(@, << << <<"-filter_complex">>, filter_complex >> >>)]
    ELSE self

\* the mapper after the filtergraph is registered as -filter_complex
RegisterFilterComplex(self, filter_complex) ==
    IF Truthy(filter_complex)
    THEN [self EXCEPT !.advanced_options =
            SetOptions(@, << << <<"-filter_complex">>, filter_complex >> >>)]
    ELSE self

\* the per-stream encoder arguments of the matched profile
EncoderArgs(group, stream_id) ==
    IF group = "libx" THEN LibxArgs(stream_id)
    ELSE IF group = "qsv" THEN QsvArgs(stream_id)
    ELSE IF group = "vaapi" THEN VaapiArgs(stream_id)
    ELSE <<>>

\* custom_stream_mapping(stream_info, stream_id)
custom_stream_mapping(self, stream_id) ==
    LET codec == << <<"-c:">> \o StreamSpecifier(stream_id), <<self.settings.video_encoder>> >>
        failed == [self |-> self, raised |-> TRUE, stream_mapping |-> <<>>,
                   stream_encoding |-> <<>>, group |-> "unset", build |-> <<>>]
    IN  IF self.settings.mode = "advanced"
        THEN IF self.settings.custom_options = None THEN failed
             ELSE [self |-> self, raised |-> FALSE,
                   stream_mapping |-> << <<"-map">>, MapIdentifier(stream_id, None, None) >>,
                   stream_encoding |-> codec \o Split(self.settings.custom_options),
                   group |-> "unset", build |-> <<>>]
        ELSE LET b == build_filter_chain(self, stream_id)
                 group == MappingGroup(self.settings.video_encoder)
             IN  IF b.raised THEN failed
                 ELSE [self |-> RegisterFilterComplex(b.self, b.filtergraph),
                       raised |-> FALSE,
                       stream_mapping |->
                           << <<"-map">>, MapIdentifier(stream_id, b.filter_id, b.filtergraph) >>,
                       stream_encoding |-> codec \o EncoderArgs(group, stream_id),
                       group |-> group, build |-> <<b>>]

---------------------------------------------------------------------------
(* Inputs *)

MainOptionValues == {None, <<>>, <<"-", "y", " ", " ", "-n">>}
AdvancedOptionValues == {None, <<" ">>, <<" ", "-threads", " ", "2", "\n">>}
CustomOptionValues == {None, <<"-preset", "\t", "slow">>}
CustomFilterValues ==
    {None, <<>>, <<" ", "hflip", " ", "\n", " ", "\t", "\n", "yadif", "\n">>}
EncoderValues == {"libx264", "hevc_qsv", "h264_vaapi", "h264_nvenc"}
MuxingQueueValues == {0, 2048}
DetectorResults == {<<>>, <<"1920:800:0:140">>}
CodecNames == {"h264", "mjpeg", "PNG"}

SettingsValues ==
    [mode : {"advanced", "standard"},
     main_options : MainOptionValues,
     advanced_options : AdvancedOptionValues,
     custom_options : CustomOptionValues,
     video_encoder : EncoderValues,
     max_muxing_queue_size : MuxingQueueValues,
     apply_smart_filters : BOOLEAN,
     autocrop_black_bars : BOOLEAN,
     apply_custom_filters : BOOLEAN,
     custom_software_filters : CustomFilterValues]

---------------------------------------------------------------------------
(* State machine: one mapper, one file *)

NoSettings == [mode |-> "unset"]
NoGroups == [configure |-> "unset", build |-> "unset", map |-> "unset"]
NoChain == [stream_id |-> 0, software_filters |-> <<>>, hardware_filters |-> <<>>,
            out |-> <<>>]

Self == [settings |-> settings, crop_value |-> crop_value, main_options |-> main_options,
         advanced_options |-> advanced_options, generic_options |-> generic_options]

\* the mapper fields take the values of the record m
Becomes(m) ==
    /\ settings' = m.settings
    /\ crop_value' = m.crop_value
    /\ main_options' = m.main_options
    /\ advanced_options' = m.advanced_options
    /\ generic_options' = m.generic_options

\* PluginStreamMapper.__init__
Init ==
    /\ pc = "new"
    /\ settings = NoSettings
    /\ crop_value = None
    /\ main_options = BaselineMain
    /\ advanced_options = BaselineAdvanced
    /\ generic_options = BaselineGeneric
    /\ next_stream = 0
    /\ results = <<>>
    /\ lastBuild = <<>>
    /\ detector_calls = 0
    /\ groups = NoGroups
    /\ raised = "none"
    /\ chain = NoChain

\* the one call of set_default_values, before any per-stream operation
Configure ==
    /\ pc = "new"
    /\ \E s \in SettingsValues, detected \in DetectorResults :
         LET r == set_default_values(Self, s, detected)
         IN  /\ Becomes(r.self)
             /\ pc' = IF r.raised THEN "failed" ELSE "configured"
             /\ raised' = IF r.raised THEN "set_default_values" ELSE raised
             /\ detector_calls' = detector_calls + r.detector_calls
             /\ groups' = [groups EXCEPT !.configure = r.group]
    /\ UNCHANGED <<next_stream, results, lastBuild, chain>>

BuildRecord(stream_id, b) ==
    [stream_id |-> stream_id, filter_id |-> b.filter_id, filtergraph |-> b.filtergraph,
     software_filters |-> b.software_filters]

\* a call of build_filter_chain on its own
BuildFilterChain ==
    /\ pc = "configured"
    /\ \E i \in StreamIds :
         LET b == build_filter_chain(Self, i)
         IN  /\ Becomes(b.self)
             /\ pc' = IF b.raised THEN "failed" ELSE pc
             /\ raised' = IF b.raised THEN "build_filter_chain" ELSE raised
             /\ lastBuild' = IF b.raised THEN lastBuild ELSE <<BuildRecord(i, b)>>
             /\ groups' = IF b.raised THEN groups ELSE [groups EXCEPT !.build = b.group]
    /\ UNCHANGED <<next_stream, results, detector_calls, chain>>

\* the next stream is an image stream: it is copied, not mapped
CopyStream ==
    /\ pc = "configured"
    /\ next_stream <= MaxVideoStream
    /\ \E codec \in CodecNames : ~test_stream_needs_processing(codec)
    /\ next_stream' = next_stream + 1
    /\ UNCHANGED <<pc, settings, crop_value, main_options, advanced_options,
                   generic_options, results, lastBuild, detector_calls, groups,
                   raised, chain>>

\* the next stream needs processing: custom_stream_mapping is called on it
MapStream ==
    /\ pc = "configured"
    /\ next_stream <= MaxVideoStream
    /\ \E codec \in CodecNames : test_stream_needs_processing(codec)
    /\ LET r == custom_stream_mapping(Self, next_stream)
       IN  /\ Becomes(r.self)
           /\ pc' = IF r.raised THEN "failed" ELSE pc
           /\ raised' = IF r.raised THEN "custom_stream_mapping" ELSE raised
           /\ results' = IF r.raised THEN results
                         ELSE Append(results, [stream_id |-> next_stream,
                                               stream_mapping |-> r.stream_mapping,
                                               stream_encoding |-> r.stream_encoding])
           /\ lastBuild' = IF r.build = <<>> THEN lastBuild
                           ELSE <<BuildRecord(next_stream, r.build[1])>>
           /\ groups' = IF r.raised THEN groups
                        ELSE IF r.build = <<>> THEN [groups EXCEPT !.map = r.group]
                        ELSE [groups EXCEPT !.map = r.group, !.build = r.build[1].group]
    /\ next_stream' = next_stream + 1
    /\ UNCHANGED <<detector_calls, chain>>

Next == Configure \/ BuildFilterChain \/ CopyStream \/ MapStream

Spec == Init /\ [][Next]_vars

---------------------------------------------------------------------------
(* The filtergraph join on its own: inputs drawn from bounded sets *)

SoftwareExprs == {<<"crop=", "1920:800:0:140">>, <<"hflip">>, <<"yadif">>}
HardwareExprs == {QsvFiltergraphs[1], VaapiFiltergraphs[1]}

BoundedSeq(S, n) == UNION {[1..m -> S] : m \in 0..n}

InitChain ==
    /\ pc = "new"
    /\ settings = NoSettings
    /\ crop_value = None
    /\ main_options = BaselineMain
    /\ advanced_options = BaselineAdvanced
    /\ generic_options = BaselineGeneric
    /\ next_stream = 0
    /\ results = <<>>
    /\ lastBuild = <<>>
    /\ detector_calls = 0
    /\ groups = NoGroups
    /\ raised = "none"
    /\ chain \in [stream_id : 0..MaxChainStream,
                  software_filters : BoundedSeq(SoftwareExprs, MaxSoftware),
                  hardware_filters : BoundedSeq(HardwareExprs, MaxHardware),
                  out : {<<>>}]

JoinChain ==
    /\ chain.out = <<>>
    /\ chain' = [chain EXCEPT !.out =
                   <<FilterChainResult(chain.stream_id, chain.software_filters,
                                       chain.hardware_filters)>>]
    /\ UNCHANGED <<pc, settings, crop_value, main_options, advanced_options,
                   generic_options, next_stream, results, lastBuild, detector_calls,
                   groups, raised>>

NextChain == JoinChain

SpecChain == InitChain /\ [][NextChain]_vars

---------------------------------------------------------------------------
(* Claims *)

\* the label the N-th segment writes, and the label it reads
SegmentOut(i, N) == <<"0:", "vf:">> \o IntStr(i) \o <<"-">> \o IntStr(N)
SegmentIn(i, N) == IF N = 1 THEN <<"0:", "v:">> \o IntStr(i) ELSE SegmentOut(i, N - 1)

RECURSIVE SegmentsUpTo(_, _, _)
\* segments 1..N of the form [in]expr[out], joined by ";"
SegmentsUpTo(i, exprs, N) ==
    IF N = 0 THEN <<>>
    ELSE SegmentsUpTo(i, exprs, N - 1) \o (IF N > 1 THEN <<";">> ELSE <<>>)
           \o <<"[">> \o SegmentIn(i, N) \o <<"]">> \o exprs[N]
           \o <<"[">> \o SegmentOut(i, N) \o <<"]">>

CountOf(atom, str) == Cardinality({j \in 1..Len(str) : str[j] = atom})

\* C1: for k software and h hardware filters with k+h >= 1 the filter chain is
\* k+h segments joined by ";", the software filters first, the N-th segment
\* [in]expr[0:vf:i-N] reading 0:v:i (N = 1) or 0:vf:i-(N-1); the output labels are
\* pairwise distinct and the final label is 0:vf:i-(k+h).
C1_LabelChaining ==
    LET i == chain.stream_id
        exprs == chain.software_filters \o chain.hardware_filters
        n == Len(exprs)
    IN  (chain.out # <<>> /\ n >= 1) =>
          /\ chain.out[1].filtergraph = SegmentsUpTo(i, exprs, n)
          /\ CountOf(";", chain.out[1].filtergraph) = n - 1
          /\ chain.out[1].filter_id = SegmentOut(i, n)
          /\ \A M, N \in 1..n : M # N => SegmentOut(i, M) # SegmentOut(i, N)

\* two software filters and one hardware filter joined on stream 3
C1_Witness ==
    /\ chain.out # <<>>
    /\ chain.stream_id = 3
    /\ Len(chain.software_filters) = 2
    /\ Len(chain.hardware_filters) = 1
    /\ chain.out[1].filter_id = <<"0:", "vf:", "3", "-", "3">>

\* the mapper as __init__ leaves it
NewMapper == [settings |-> NoSettings, crop_value |-> None, main_options |-> BaselineMain,
              advanced_options |-> BaselineAdvanced, generic_options |-> BaselineGeneric]

Standard == pc = "configured" /\ settings.mode = "standard"

\* C2: standard mode, VAAPI encoder, after configure and buildFilterChain: with a
\* software filter queued the generic options hold -hwaccel_output_format = nv12,
\* with none queued they do not.
C2_VaapiSoftwareFrames ==
    (Standard /\ settings.video_encoder \in VaapiEncoders /\ lastBuild # <<>>) =>
        LET nv12 == OptionValue(generic_options, <<"-hwaccel_output_format">>) = <<"nv12">>
        IN  IF lastBuild[1].software_filters # <<>> THEN nv12 ELSE ~nv12

C2_Witness ==
    /\ Standard
    /\ settings.video_encoder \in VaapiEncoders
    /\ lastBuild # <<>>
    /\ Len(lastBuild[1].software_filters) = 3
    /\ OptionValue(generic_options, <<"-hwaccel_output_format">>) = <<"nv12">>

\* C3: standard mode, a filter chain produced for the stream just mapped: the
\* result maps "[finalLabel]" with the label buildFilterChain returns for that
\* stream, and -filter_complex is exactly that stream's graph, whatever an
\* earlier mapStream call registered.
C3_MapFromFilterGraph ==
    (Standard /\ results # <<>>) =>
        LET r == results[Len(results)]
            b == build_filter_chain(Self, r.stream_id)
        IN  Truthy(b.filtergraph) =>
              /\ r.stream_mapping = << <<"-map">>, <<"[">> \o b.filter_id \o <<"]">> >>
              /\ OptionValue(advanced_options, <<"-filter_complex">>) = b.filtergraph

C3_Witness ==
    /\ Standard
    /\ Len(results) = 2
    /\ Head(results[1].stream_mapping[2]) = "["
    /\ results[2].stream_mapping = << <<"-map">>, <<"[", "0:", "vf:", "1", "-", "2", "]">> >>
    /\ OptionValue(advanced_options, <<"-filter_complex">>) =
         <<"[", "0:", "v:", "1", "]", "crop=", "1920:800:0:140", "[", "0:", "vf:", "1", "-", "1", "]",
           ";", "[", "0:", "vf:", "1", "-", "1", "]", "format=nv12|vaapi,hwupload",
           "[", "0:", "vf:", "1", "-", "2", "]">>

NoFiltersConfigured ==
    /\ pc = "configured"
    /\ ~settings.apply_smart_filters
    /\ ~settings.apply_custom_filters
    /\ settings.video_encoder \notin QsvEncoders \cup VaapiEncoders

\* C4: without smart filters, custom filters and a QSV or VAAPI encoder,
\* buildFilterChain returns (none, none) for every stream index, every mapStream
\* result maps the raw "0:v:i", and no -filter_complex is registered: the advanced
\* options are as configure left them.
C4_NoFilters ==
    NoFiltersConfigured =>
        /\ \A i \in StreamIds :
             /\ build_filter_chain(Self, i).filter_id = None
             /\ build_filter_chain(Self, i).filtergraph = None
        /\ lastBuild # <<>> => lastBuild[1].filtergraph = None
        /\ \A k \in 1..Len(results) :
             results[k].stream_mapping =
                 << <<"-map">>, <<"0:", "v:">> \o IntStr(results[k].stream_id) >>
        /\ advanced_options = set_default_values(NewMapper, settings, None).self.advanced_options

C4_Witness ==
    /\ NoFiltersConfigured
    /\ settings.mode = "standard"
    /\ settings.custom_software_filters # None
    /\ settings.custom_software_filters # <<>>
    /\ Len(results) = 2
    /\ lastBuild # <<>>

\* advanced mode, as configure leaves the mapper
AdvancedConfigured ==
    /\ pc # "new"
    /\ settings.mode = "advanced"
    /\ raised # "set_default_values"
    /\ lastBuild = <<>>

\* C5: advanced mode, main_options and advanced_options given as strings:
\* configure replaces the baseline main (advanced) options by the whitespace-split
\* tokens of main_options (advanced_options) when there is a token, leaves the
\* baseline when there is none, and applies nothing else: no
\* -max_muxing_queue_size, no black-bar detection, no profile default arguments.
C5_AdvancedMode ==
    AdvancedConfigured =>
        /\ main_options = IF Split(settings.main_options) # <<>>
                          THEN Split(settings.main_options) ELSE BaselineMain
        /\ advanced_options = IF Split(settings.advanced_options) # <<>>
                              THEN Split(settings.advanced_options) ELSE BaselineAdvanced
        /\ generic_options = BaselineGeneric
        /\ crop_value = None
        /\ detector_calls = 0
        /\ groups.configure = "unset"

C5_Witness ==
    /\ AdvancedConfigured
    /\ settings.main_options = <<>>
    /\ main_options = BaselineMain
    /\ advanced_options = << <<"-threads">>, <<"2">> >>
    /\ settings.max_muxing_queue_size # 0
    /\ settings.apply_smart_filters /\ settings.autocrop_black_bars
    /\ settings.video_encoder \in VaapiEncoders

\* C6: a second buildFilterChain call with the same settings, crop value and stream
\* index, made from the state the first call left, returns the same final label and
\* the same graph (or (none, none) again).
C6_Idempotent ==
    (pc = "configured" /\ lastBuild # <<>>) =>
        LET again == build_filter_chain(Self, lastBuild[1].stream_id)
        IN  /\ ~again.raised
            /\ again.filter_id = lastBuild[1].filter_id
            /\ again.filtergraph = lastBuild[1].filtergraph

\* the first call queued the crop filter and switched VAAPI to software frames
C6_Witness ==
    /\ pc = "configured"
    /\ lastBuild # <<>>
    /\ lastBuild[1].filter_id = <<"0:", "vf:", "1", "-", "2">>
    /\ OptionValue(generic_options, <<"-hwaccel_output_format">>) = <<"nv12">>
    /\ crop_value = <<"1920:800:0:140">>

\* C7: the black-bar detector runs at most once, only in configure, only in
\* standard mode with apply_smart_filters and autocrop_black_bars, and before any
\* stream is mapped; no buildFilterChain or mapStream call runs it or changes the
\* crop value.
C7_DetectOnce ==
    [][(detector_calls' # detector_calls \/ crop_value' # crop_value) =>
          /\ pc = "new"
          /\ detector_calls = 0
          /\ detector_calls' = 1
          /\ settings'.mode = "standard"
          /\ settings'.apply_smart_filters
          /\ settings'.autocrop_black_bars
          /\ results = <<>> /\ lastBuild = <<>> /\ next_stream = 0]_vars

C7_Witness ==
    /\ detector_calls = 1
    /\ crop_value = <<"1920:800:0:140">>
    /\ Len(results) = 2
    /\ lastBuild # <<>>

HardwareGroup(g) == IF g \in {"qsv", "vaapi"} THEN g ELSE "none"

C9_NeverRaises == raised = "none"

\* label is written, in brackets, at the end of a segment of graph
IsOutputLabel(graph, label) ==
    \E j \in 1..Len(graph) :
        /\ j + Len(label) + 1 <= Len(graph)
        /\ SubSeq(graph, j, j + Len(label) + 1) = <<"[">> \o label \o <<"]">>
        /\ (j + Len(label) + 1 = Len(graph) \/ graph[j + Len(label) + 2] = ";")

\* C10: standard mode: every mapping result returned so far that maps a bracketed
\* filter label names an output label of the -filter_complex graph now registered.
C10_MappedLabelsRegistered ==
    Standard =>
        \A k \in 1..Len(results) :
            LET target == results[k].stream_mapping[2]
            IN  Head(target) = "[" =>
                  IsOutputLabel(OptionValue(advanced_options, <<"-filter_complex">>),
                                SubSeq(target, 2, Len(target) - 1))

====
